---- MODULE Spec2Model ----
(***************************************************************************)
(* make_exam_numbers (src/src/main.rs): rejection sampling of fixed-width  *)
(* numeric codes whose pairwise Hamming distance is at least a configured  *)
(* minimum.  The model follows main() and impl GenerateCodes.              *)
(*                                                                         *)
(* A string is a sequence of characters, a character a one-letter string.  *)
(* The definitions that carry the name of a definition of the code with a  *)
(* suffix (hamming_gt, IterAny, ...) are variants of it with one slip      *)
(* each; the properties are checked to fail under them.                    *)
(***************************************************************************)
EXTENDS Naturals, Sequences, FiniteSets

VARIABLES
    args,       \* Parameters: seed, min_hamming_distance, digits, existing, prefixes
    pc,         \* position of main(): "load", "prefix", "call", "test", "while", "write",
                \* "finish", or how it ended: "done", "error" (Err returned), "panic"
    range,      \* GenerateCodes.range : Range<u64>, as [start, end), end excluded
    num_digits, \* GenerateCodes.num_digits
    used,       \* GenerateCodes.used : Vec<String>
    prng,       \* GenerateCodes.prng : [seed, pos]; seed None is the entropy source
    tape,       \* the values the stream of each seed has been seen to produce
    files,      \* the output files prefix_<prefix>.txt: [exists, lines]
    path_idx,   \* main: index of `path` in args.existing
    p_idx,      \* main: index of `p` in args.prefixes
    i,          \* main: loop variable of `for i in 0..p.number`
    digits,     \* generate_candidate: `digits`, the value last drawn
    candidate,  \* new_code: `candidate`; after the return, main's `code`
    ok_result,  \* new_code: the value of self.ok(&candidate, ..) in the loop test
    draws,      \* generate_candidate calls made by the current new_code call, counted
                \* as far as MaxRejects + 1; MaxRejects + 2 stands for every larger number
    dots,       \* "." markers printed by the current new_code call, counted as far as
                \* MaxRejects; MaxRejects + 1 stands for every larger number
    run,        \* which execution of the program this is (1 or 2)
    prev        \* what the earlier execution was given and what it produced

vars == <<args, pc, range, num_digits, used, prng, tape, files, path_idx, p_idx, i, digits,
          candidate, ok_result, draws, dots, run, prev>>

-----------------------------------------------------------------------------
(* Bounds of the model *)

\* digits * (number of codes requested in a run) is at most MaxWork
MaxWork == 2
\* existing lines plus requested codes in a run are at most MaxCodes
MaxCodes == 3
\* largest min_hamming_distance tried
MaxDist == 2
\* the "." markers of one new_code call are counted as far as this
MaxRejects == 2
\* the stream of a seed is followed for at most this many drawn digits
MaxTape == 3

-----------------------------------------------------------------------------
(* Strings *)

Empty == << >>
DigitChars == <<"0", "1", "2", "3", "4", "5", "6", "7", "8", "9">>
\* Option<u64>: None, Some(s)
None == << >>
Some(s) == <<s>>
\* a file that was never created
NoFile == [exists |-> FALSE, lines |-> << >>]

Min(a, b) == IF a <= b THEN a ELSE b

RECURSIVE Pow10(_)
\* 10^n, the value of (10u64).pow(n) while it fits u64, that is for n <= 19
Pow10(n) == IF n = 0 THEN 1 ELSE 10 * Pow10(n - 1)

\* `args.digits as u32`: the low 32 bits of a usize
as_u32(n) == IF n < 65536 THEN n ELSE n % (65536 * 65536)

\* what (10u64).pow(args.digits as u32) of line 85 comes to: Some(value), or
\* None for the panic 'attempt to multiply with overflow'.  10^e fits u64 for
\* e <= 19.  Above that a build with overflow checks (debug) panics, and a
\* build without them (release) wraps: 10^e mod 2^64, which is 0 from e = 64
\* on, 2^64 dividing 10^e.
upper_end_of_range(d) ==
    LET e == as_u32(d) IN
    IF e <= 19 THEN { Some(Pow10(e)) }
    ELSE { None,
           Some(IF e >= 64 THEN 0
                ELSE Pow10(e) % (65536 * 65536 * 65536 * 65536)) }

RECURSIVE Decimal(_)
\* Display of an unsigned integer: its decimal digits, no leading zero.
Decimal(v) ==
    IF v < 10 THEN <<DigitChars[v + 1]>>
    ELSE Decimal(v \div 10) \o <<DigitChars[(v % 10) + 1]>>

\* the widest field format! takes (u16::MAX)
FormatWidthMax == 65535
\* in place of a string: format! panics, 'Formatting argument out of range'
FormattingPanic == <<"Formatting argument out of range">>

RECURSIVE ZeroPad(_, _)
\* the `0` flag with a minimum width: zeros are put in front while the text is
\* shorter than the width; a longer text is left as it is.  A width above
\* FormatWidthMax is refused.
ZeroPad(s, width) ==
    IF width > FormatWidthMax THEN FormattingPanic
    ELSE IF Len(s) >= width THEN s
    ELSE ZeroPad(<<"0">> \o s, width)

\* n + 1 as far as the model counts: cap + 1 stands for every number above cap
CountUp(n, cap) == IF n > cap THEN n ELSE n + 1

-----------------------------------------------------------------------------
(* impl GenerateCodes: the pure parts *)

\* the format string read as "width 2": {:02} in place of {:02$}
generate_candidate_width2(prefix, value, width) ==
    prefix \o ZeroPad(Decimal(value), 2)

\* format!("{}{:02$}", prefix, digits, self.num_digits)
\* with `value` the number drawn and `width` self.num_digits
generate_candidate(prefix, value, width) ==
    IF width > FormatWidthMax THEN FormattingPanic
    ELSE prefix \o ZeroPad(Decimal(value), width)

RECURSIVE ZipLongestCount(_, _)
\* a count that goes on to the end of the longer string, a missing character
\* counting as a difference
ZipLongestCount(s, c) ==
    IF s = Empty THEN Len(c)
    ELSE IF c = Empty THEN Len(s)
    ELSE (IF Head(s) # Head(c) THEN 1 ELSE 0) + ZipLongestCount(Tail(s), Tail(c))

RECURSIVE ZipFilterCountEq(_, _)
\* the filter with the test turned round: |(a,b)| a == b
ZipFilterCountEq(s, c) ==
    IF s = Empty \/ c = Empty THEN 0
    ELSE (IF Head(s) = Head(c) THEN 1 ELSE 0) + ZipFilterCountEq(Tail(s), Tail(c))

RECURSIVE ZipFilterCount(_, _)
\* s.chars().zip(candidate.chars()).filter(|(a,b)| a != b).count():
\* zip ends with the shorter of the two iterators.
ZipFilterCount(s, c) ==
    IF s = Empty \/ c = Empty THEN 0
    ELSE (IF Head(s) # Head(c) THEN 1 ELSE 0) + ZipFilterCount(Tail(s), Tail(c))

\* strings of different lengths taken to be far enough apart
hamming_same_length(s, c, min_hamming_distance) ==
    Len(s) # Len(c) \/ ZipFilterCount(s, c) >= min_hamming_distance

\* > written for >=
hamming_gt(s, c, min_hamming_distance) ==
    ZipFilterCount(s, c) > min_hamming_distance

\* the distance asked for clamped to what the two strings can reach
hamming_clamped(s, c, min_hamming_distance) ==
    ZipFilterCount(s, c) >= Min(min_hamming_distance, Min(Len(s), Len(c)))

\* the closure `hamming` of ok
hamming(s, c, min_hamming_distance) ==
    ZipFilterCount(s, c) >= min_hamming_distance

RECURSIVE IterAny(_, _, _)
\* any written for all
IterAny(u, c, min_hamming_distance) ==
    IF u = Empty THEN FALSE
    ELSE IF hamming(Head(u), c, min_hamming_distance) THEN TRUE
    ELSE IterAny(Tail(u), c, min_hamming_distance)

RECURSIVE IterAllSamePrefix(_, _, _)
\* a check scoped by prefix: codes that begin with another character are skipped
IterAllSamePrefix(u, c, min_hamming_distance) ==
    IF u = Empty THEN TRUE
    ELSE IF /\ Head(u) # Empty /\ c # Empty /\ Head(Head(u)) # Head(c)
         THEN IterAllSamePrefix(Tail(u), c, min_hamming_distance)
    ELSE IF ~hamming(Head(u), c, min_hamming_distance) THEN FALSE
    ELSE IterAllSamePrefix(Tail(u), c, min_hamming_distance)

RECURSIVE IterAll(_, _, _)
\* self.used.iter().all(hamming): false at the first element that fails
IterAll(u, c, min_hamming_distance) ==
    IF u = Empty THEN TRUE
    ELSE IF ~hamming(Head(u), c, min_hamming_distance) THEN FALSE
    ELSE IterAll(Tail(u), c, min_hamming_distance)

\* GenerateCodes::ok
ok(u, c, min_hamming_distance) == IterAll(u, c, min_hamming_distance)

\* the seed ignored: from_entropy() always
seed_prng_entropy(seed) == [seed |-> None, pos |-> 0]

\* the random source main() builds from args.seed: seed_from_u64(seed), or
\* from_entropy() when no seed is given
seed_prng(seed) == [seed |-> seed, pos |-> 0]

-----------------------------------------------------------------------------
(* The command lines tried *)

Seeds == {0}
DigitChoices == {1, 2}
PrefixPool == {Empty, <<"A">>, <<"B">>}

\* contents of the files named by --existing
File3 == << <<"3">> >>
FileBlank == << Empty >>
FileA3 == << <<"A", "3">> >>
File3And3 == << <<"3">>, <<"3">> >>
ExistingPool ==
    { << >>, <<File3>>, <<FileBlank>>, <<FileA3>>, <<File3And3>>, <<File3, FileA3>> }

PrefixLists ==
    { << >>, <<Empty>>, << <<"A">> >>, << <<"A">>, <<"B">> >>,
      << <<"A">>, <<"A">> >>, <<Empty, <<"A">> >> }

RECURSIVE SumLen(_)
\* the number of lines of a list of files
SumLen(fs) == IF fs = << >> THEN 0 ELSE Len(Head(fs)) + SumLen(Tail(fs))

RECURSIVE TotalNumber(_)
\* the number of codes a list of requests asks for
TotalNumber(ps) == IF ps = << >> THEN 0 ELSE Head(ps).number + TotalNumber(Tail(ps))

\* prefix:number arguments: every list of PrefixLists with every count
Requests ==
    UNION { { [k \in 1..Len(l) |-> [prefix |-> l[k], number |-> n[k]]] :
                n \in [1..Len(l) -> 1..MaxWork] } : l \in PrefixLists }

Configs ==
    { a \in [ seed : {None} \cup {Some(s) : s \in Seeds},
              min_hamming_distance : 0..MaxDist,
              digits : DigitChoices,
              existing : ExistingPool,
              prefixes : Requests ] :
        /\ a.digits * TotalNumber(a.prefixes) <= MaxWork
        /\ SumLen(a.existing) + TotalNumber(a.prefixes) <= MaxCodes }

-----------------------------------------------------------------------------
(* main() *)

\* where main() goes once the file loop is over, from request k on
AfterPrefix(k) == IF k <= Len(args.prefixes) THEN "prefix" ELSE "finish"
AfterLoad(k) == IF k <= Len(args.existing) THEN "load" ELSE AfterPrefix(1)

\* the state lines 83-91 of main() leave, for the command line a: the
\* generator is built, or line 85 has panicked
Start(a) ==
    /\ args = a
    /\ \E upper \in upper_end_of_range(a.digits) :
        IF upper = None
        THEN /\ range = [start |-> 0, end |-> 0]
             /\ pc = "panic"
        ELSE /\ range = [start |-> 0, end |-> upper[1]]
             /\ pc = IF a.existing # << >> THEN "load"
                     ELSE IF a.prefixes # << >> THEN "prefix" ELSE "finish"
    /\ num_digits = a.digits
    /\ used = << >>
    /\ prng = seed_prng(a.seed)
    /\ path_idx = 1
    /\ p_idx = 1
    /\ i = 0
    /\ digits = 0
    /\ candidate = Empty
    /\ ok_result = FALSE
    /\ draws = 0
    /\ dots = 0

\* Every command line without a seed is run; the stream of a seed keeps every
\* value it has produced, so a seeded command line is run here when it asks
\* for one code of one digit, and in full under SpecTwice.
OnceConfigs ==
    { a \in Configs : a.seed # None => a.digits * TotalNumber(a.prefixes) <= 1 }

\* Codes of four digits: one code is asked for, under the prefix A.
WideConfigs ==
    [ seed : {None},
      min_hamming_distance : {1},
      digits : {4},
      existing : { << >> },
      prefixes : { << [prefix |-> <<"A">>, number |-> 1] >> } ]

\* A width whose power of ten does not fit u64: 64 digits.
OverflowConfigs ==
    [ seed : {None},
      min_hamming_distance : {1},
      digits : {64},
      existing : { << >> },
      prefixes : { << [prefix |-> Empty, number |-> 1] >> } ]

Init ==
    /\ \E a \in OnceConfigs \cup WideConfigs \cup OverflowConfigs : Start(a)
    /\ tape = [s \in Seeds |-> << >>]
    /\ files = [p \in PrefixPool |-> NoFile]
    /\ run = 1
    /\ prev = [used |-> << >>, files |-> [p \in PrefixPool |-> NoFile]]

\* blank lines of the file skipped
ReadFileSkipBlank ==
    /\ pc = "load"
    /\ used' = used \o SelectSeq(args.existing[path_idx], LAMBDA l : l # Empty)
    /\ path_idx' = path_idx + 1
    /\ pc' = AfterLoad(path_idx + 1)
    /\ UNCHANGED <<args, range, num_digits, prng, tape, files, p_idx, i, digits, candidate,
                   ok_result, draws, dots, run, prev>>

\* for path in &args.existing: every line of the file is pushed (lines 92-99)
ReadFile ==
    /\ pc = "load"
    /\ used' = used \o args.existing[path_idx]
    /\ path_idx' = path_idx + 1
    /\ pc' = AfterLoad(path_idx + 1)
    /\ UNCHANGED <<args, range, num_digits, prng, tape, files, p_idx, i, digits, candidate,
                   ok_result, draws, dots, run, prev>>

\* for p in &args.prefixes: File::create makes the file, or empties it (lines 100-103)
StartPrefix ==
    /\ pc = "prefix"
    /\ LET p == args.prefixes[p_idx] IN
        /\ files' = [files EXCEPT ![p.prefix] = [exists |-> TRUE, lines |-> << >>]]
        /\ i' = 0
        /\ IF 0 < p.number
           THEN pc' = "call" /\ p_idx' = p_idx
           ELSE pc' = AfterPrefix(p_idx + 1) /\ p_idx' = p_idx + 1
    /\ UNCHANGED <<args, range, num_digits, used, prng, tape, path_idx, digits, candidate,
                   ok_result, draws, dots, run, prev>>

\* self.prng.gen_range(self.range.clone()) returns v.  The entropy source may
\* return any value of the range; the stream of a seed returns what that
\* stream returns at this position, seen now for the first time or seen before.
gen_range(v) ==
    /\ v \in range.start .. (range.end - 1)
    /\ IF prng.seed = None
       THEN UNCHANGED <<prng, tape>>
       ELSE LET s == prng.seed[1] IN
            /\ num_digits * (prng.pos + 1) <= MaxTape
            /\ prng' = [prng EXCEPT !.pos = @ + 1]
            /\ IF prng.pos < Len(tape[s])
               THEN v = tape[s][prng.pos + 1] /\ UNCHANGED tape
               ELSE tape' = [tape EXCEPT ![s] = Append(@, v)]

\* a marker printed for every draw, the first one too
CallNewCodePrintsDot ==
    /\ pc = "call"
    /\ num_digits <= FormatWidthMax
    /\ \E v \in range.start .. (range.end - 1) :
        /\ gen_range(v)
        /\ digits' = v
        /\ candidate' = generate_candidate(args.prefixes[p_idx].prefix, v, num_digits)
    /\ draws' = 1
    /\ dots' = 1
    /\ pc' = "test"
    /\ UNCHANGED <<args, range, num_digits, used, files, path_idx, p_idx, i,
                   ok_result, run, prev>>

\* main calls new_code, which draws its first candidate (lines 104, 131)
CallNewCode ==
    /\ pc = "call"
    /\ num_digits <= FormatWidthMax
    /\ \E v \in range.start .. (range.end - 1) :
        /\ gen_range(v)
        /\ digits' = v
        /\ candidate' = generate_candidate(args.prefixes[p_idx].prefix, v, num_digits)
    /\ draws' = 1
    /\ dots' = 0
    /\ pc' = "test"
    /\ UNCHANGED <<args, range, num_digits, used, files, path_idx, p_idx, i,
                   ok_result, run, prev>>

\* the loop test of new_code evaluates self.ok(&candidate, min_hamming_distance) (line 132)
TestOk ==
    /\ pc = "test"
    /\ ok_result' = ok(used, candidate, args.min_hamming_distance)
    /\ pc' = "while"
    /\ UNCHANGED <<args, range, num_digits, used, prng, tape, files, path_idx, p_idx,
                   i, digits, candidate, draws, dots, run, prev>>

\* the loop body: print ".", draw again (lines 133-134)
Reject ==
    /\ pc = "while"
    /\ ~ok_result
    /\ dots' = CountUp(dots, MaxRejects)
    /\ \E v \in range.start .. (range.end - 1) :
        /\ gen_range(v)
        /\ digits' = v
        /\ candidate' = generate_candidate(args.prefixes[p_idx].prefix, v, num_digits)
    /\ draws' = CountUp(draws, MaxRejects + 1)
    /\ pc' = "test"
    /\ UNCHANGED <<args, range, num_digits, used, files, path_idx, p_idx, i,
                   ok_result, run, prev>>

\* the used list kept free of duplicates: a code it already holds is not pushed
AcceptDedup ==
    /\ pc = "while"
    /\ ok_result
    /\ used' = IF \E k \in 1..Len(used) : used[k] = candidate
               THEN used ELSE Append(used, candidate)
    /\ pc' = "write"
    /\ UNCHANGED <<args, range, num_digits, prng, tape, files, path_idx, p_idx, i,
                   digits, candidate, ok_result, draws, dots, run, prev>>

\* the loop is left: the candidate is pushed and returned (lines 136-137)
Accept ==
    /\ pc = "while"
    /\ ok_result
    /\ used' = Append(used, candidate)
    /\ pc' = "write"
    /\ UNCHANGED <<args, range, num_digits, prng, tape, files, path_idx, p_idx, i,
                   digits, candidate, ok_result, draws, dots, run, prev>>

\* writeln!(file, "{}", code) and the end of the loop body (lines 105-107)
WriteCode ==
    /\ pc = "write"
    /\ LET p == args.prefixes[p_idx] IN
        /\ files' = [files EXCEPT ![p.prefix].lines = Append(@, candidate)]
        /\ i' = i + 1
        /\ IF i + 1 < p.number
           THEN pc' = "call" /\ p_idx' = p_idx
           ELSE pc' = AfterPrefix(p_idx + 1) /\ p_idx' = p_idx + 1
    /\ UNCHANGED <<args, range, num_digits, used, prng, tape, path_idx, digits, candidate,
                   ok_result, draws, dots, run, prev>>

\* println!("All finished!") and Ok(()) (lines 109-110)
Finish ==
    /\ pc = "finish"
    /\ pc' = "done"
    /\ UNCHANGED <<args, range, num_digits, used, prng, tape, files, path_idx, p_idx,
                   i, digits, candidate, ok_result, draws, dots, run, prev>>

\* A `?` of main() returns the error (exit code 1):
\*   line 94 or 96: File::open fails, or a line cannot be read; the lines read
\*     before it have been pushed;
\*   line 102: File::create fails;
\*   line 105: writeln! fails; what it wrote of the code before that, without
\*     the end of the line, stays in the file.
IoError ==
    /\ pc' = "error"
    /\ LET p == args.prefixes[p_idx].prefix IN
       CASE pc = "load" ->
              /\ \E n \in 0 .. Len(args.existing[path_idx]) :
                    used' = used \o SubSeq(args.existing[path_idx], 1, n)
              /\ UNCHANGED files
         [] pc = "prefix" ->
              UNCHANGED <<used, files>>
         [] pc = "write" ->
              /\ \E n \in 0 .. Len(candidate) :
                    files' = IF n = 0 THEN files
                             ELSE [files EXCEPT ![p].lines = Append(@, SubSeq(candidate, 1, n))]
              /\ UNCHANGED used
         [] OTHER -> FALSE
    /\ UNCHANGED <<args, range, num_digits, prng, tape, path_idx, p_idx,
                   i, digits, candidate, ok_result, draws, dots, run, prev>>

\* The process panics (exit code 101):
\*   a println! to a standard output that takes no more (lines 98, 101, 106,
\*     109), after what the statements before it have done;
\*   print!(".") (line 133): standard output keeps the markers in its line
\*     buffer of 1024 bytes and writes when that is full, so the write that can
\*     fail comes after more markers than are counted;
\*   gen_range on an empty range (line 122);
\*   format! with a width above FormatWidthMax (line 123), after the draw.
Panic ==
    /\ pc' = "panic"
    /\ LET p == args.prefixes[p_idx].prefix IN
       CASE pc = "load" ->
              /\ used' = used \o args.existing[path_idx]
              /\ UNCHANGED <<files, prng, tape, digits>>
         [] pc = "prefix" ->
              UNCHANGED <<used, files, prng, tape, digits>>
         [] pc = "call" /\ range.end <= range.start ->
              UNCHANGED <<used, files, prng, tape, digits>>
         [] pc = "call" /\ range.end > range.start ->
              /\ num_digits > FormatWidthMax
              /\ \E v \in range.start .. (range.end - 1) : gen_range(v) /\ digits' = v
              /\ UNCHANGED <<used, files>>
         [] pc = "while" ->
              /\ ~ok_result
              /\ dots > MaxRejects
              /\ UNCHANGED <<used, files, prng, tape, digits>>
         [] pc = "write" ->
              /\ files' = [files EXCEPT ![p].lines = Append(@, candidate)]
              /\ UNCHANGED <<used, prng, tape, digits>>
         [] pc = "finish" ->
              UNCHANGED <<used, files, prng, tape, digits>>
         [] OTHER -> FALSE
    /\ UNCHANGED <<args, range, num_digits, path_idx, p_idx, i, candidate, ok_result,
                   draws, dots, run, prev>>

Next ==
    \/ ReadFile
    \/ StartPrefix
    \/ CallNewCode
    \/ TestOk
    \/ Reject
    \/ Accept
    \/ WriteCode
    \/ Finish
    \/ IoError
    \/ Panic

Spec == Init /\ [][Next]_vars

-----------------------------------------------------------------------------
(* Two executions with the same command line *)

\* The program has finished and is started again with the same arguments.
\* The generator is built anew (lines 83-91); the files written stay on disk,
\* and the stream of a seed is the same stream as before.
Restart ==
    /\ pc = "done"
    /\ run = 1
    /\ run' = 2
    /\ prev' = [used |-> used, files |-> files]
    /\ \E upper \in upper_end_of_range(args.digits) :
        IF upper = None
        THEN range' = [start |-> 0, end |-> 0] /\ pc' = "panic"
        ELSE range' = [start |-> 0, end |-> upper[1]] /\ pc' = AfterLoad(1)
    /\ num_digits' = args.digits
    /\ used' = << >>
    /\ prng' = seed_prng(args.seed)
    /\ path_idx' = 1
    /\ p_idx' = 1
    /\ i' = 0
    /\ digits' = 0
    /\ candidate' = Empty
    /\ ok_result' = FALSE
    /\ draws' = 0
    /\ dots' = 0
    /\ UNCHANGED <<args, tape, files>>

\* The command lines run twice: those without pre-existing codes or with the
\* one code 3, with a seed, or without one when they ask for one code of one
\* digit.
TwiceConfigs ==
    { a \in Configs :
        /\ a.existing \in { << >>, <<File3>> }
        /\ a.seed = None => a.digits * TotalNumber(a.prefixes) <= 1 }

InitTwice ==
    /\ \E a \in TwiceConfigs : Start(a)
    /\ tape = [s \in Seeds |-> << >>]
    /\ files = [p \in PrefixPool |-> NoFile]
    /\ run = 1
    /\ prev = [used |-> << >>, files |-> [p \in PrefixPool |-> NoFile]]

NextTwice == Next \/ Restart

SpecTwice == InitTwice /\ [][NextTwice]_vars

-----------------------------------------------------------------------------
(* Runs that never stop drawing, with a fair random source *)

\* The command lines run with a fair source: no seed, one code of one digit,
\* with every list of pre-existing codes.
FairConfigs ==
    { a \in Configs :
        a.seed = None /\ a.digits = 1 /\ TotalNumber(a.prefixes) = 1 }

\* every value a generator of these runs can draw
FairValues == UNION { 0 .. (Pow10(a.digits) - 1) : a \in FairConfigs }

InitFair ==
    /\ \E a \in FairConfigs : Start(a)
    /\ tape = [s \in Seeds |-> << >>]
    /\ files = [p \in PrefixPool |-> NoFile]
    /\ run = 1
    /\ prev = [used |-> << >>, files |-> [p \in PrefixPool |-> NoFile]]

\* generate_candidate draws the value v
DrawOf(v) == (CallNewCode \/ Reject) /\ digits' = v

\* new_code runs on (the loop test and the return are taken when they can be),
\* and the random source is fair: a value that can be drawn again and again is
\* drawn again and again.
SpecFair ==
    /\ InitFair
    /\ [][Next]_vars
    /\ WF_vars(TestOk)
    /\ WF_vars(Accept)
    /\ \A v \in FairValues : SF_vars(DrawOf(v))

-----------------------------------------------------------------------------
(* Vocabulary of the properties *)

\* the Hamming distance over the shared length: the number of positions
\* k <= min(len(a), len(b)) with a[k] # b[k]
Dist(a, b) == Cardinality({k \in 1..Min(Len(a), Len(b)) : a[k] # b[k]})

\* the first NumExisting entries of `used` are the pre-supplied ones
NumExisting == SumLen(args.existing)
Generated == {k \in 1..Len(used) : k > NumExisting}

\* the current call's arguments
Prefix == args.prefixes[p_idx].prefix
MinDist == args.min_hamming_distance
InCall == pc \in {"test", "while"}

RECURSIVE RequestIndex(_, _)
\* the request that the j-th generated code of a run belongs to
RequestIndex(ps, j) ==
    IF j <= Head(ps).number THEN 1 ELSE 1 + RequestIndex(Tail(ps), j - Head(ps).number)

\* the prefix under which used[k] was generated, k in Generated
PrefixOf(k) == args.prefixes[RequestIndex(args.prefixes, k - NumExisting)].prefix

-----------------------------------------------------------------------------
(* C1 *)

\* C1 as stated: every two different entries of the used set, pre-supplied or
\* generated, are at Hamming distance >= min_hamming_distance.
C1_AllPairs ==
    \A j, k \in 1..Len(used) :
        used[j] # used[k] => Dist(used[j], used[k]) >= MinDist

\* C1, amended: every pair of entries of the used set at two positions, at
\* least one of them generated by new_code, is at Hamming distance >=
\* min_hamming_distance (two pre-supplied codes are never compared).
C1_GeneratedPairs ==
    \A j \in 1..Len(used) : \A k \in Generated :
        j # k => Dist(used[j], used[k]) >= MinDist

\* a generated code next to a pre-supplied one, after a rejection
C1_Witness ==
    /\ pc = "write"
    /\ NumExisting >= 1
    /\ Generated # {}
    /\ MinDist >= 1
    /\ dots >= 1

(* C2 *)

\* C2: the code a new_code call returns is at distance >= min_hamming_distance
\* from every code the used set held when the call began, and a candidate too
\* close to some used code is neither returned nor appended.
C2_ReturnedFarFromUsed ==
    [][ /\ (pc = "while" /\ pc' = "write") =>
            /\ used' = Append(used, candidate)
            /\ candidate' = candidate
            /\ \A k \in 1..Len(used) : Dist(used[k], candidate) >= MinDist
        /\ (InCall /\ \E k \in 1..Len(used) : Dist(used[k], candidate) < MinDist) =>
            /\ used' = used
            /\ pc' # "write" ]_vars

\* a call has returned a code, after a rejection, into a used set of two codes
C2_Witness ==
    /\ pc = "write"
    /\ Len(used) >= 2
    /\ MinDist >= 1
    /\ dots >= 1
    /\ used[Len(used)] = candidate


(* C3 *)

\* C3: a second run with the same seed, the same num_digits, the same
\* min_hamming_distance and the same requests, without pre-existing codes,
\* builds the used set the first run built, code by code, and ends with the
\* same used set and the same output files.
C3_Deterministic ==
    (run = 2 /\ args.seed # None /\ args.existing = << >>) =>
        /\ Len(used) <= Len(prev.used)
        /\ used = SubSeq(prev.used, 1, Len(used))
        /\ pc = "done" => (used = prev.used /\ files = prev.files)

\* the second seeded run has finished: two codes, one candidate rejected
C3_Witness ==
    /\ run = 2
    /\ pc = "done"
    /\ args.seed # None
    /\ args.existing = << >>
    /\ Len(used) = 2
    /\ prng.pos = 3

(* C4 *)

\* the decimal numeral of v in exactly w places, place by place
Numeral(v, w) == [k \in 1..w |-> DigitChars[((v \div Pow10(w - k)) % 10) + 1]]

IsDigit(ch) == \E d \in 1..10 : DigitChars[d] = ch

\* C4: a candidate is the prefix followed by the drawn value in exactly
\* num_digits decimal places, zeros in front, so its length is len(prefix) +
\* num_digits; every code new_code has returned has that shape.
C4_Format ==
    /\ pc \in {"test", "while", "write"} =>
        /\ digits \in range.start .. (range.end - 1)
        /\ candidate = Prefix \o Numeral(digits, num_digits)
        /\ Len(candidate) = Len(Prefix) + num_digits
    /\ \A k \in Generated :
        /\ Len(used[k]) = Len(PrefixOf(k)) + num_digits
        /\ SubSeq(used[k], 1, Len(PrefixOf(k))) = PrefixOf(k)
        /\ \A j \in (Len(PrefixOf(k)) + 1) .. Len(used[k]) : IsDigit(used[k][j])

\* the value 7 drawn with four digits and prefix A has been returned as A0007
C4_Witness ==
    /\ pc = "write"
    /\ num_digits = 4
    /\ digits = 7
    /\ candidate = <<"A", "0", "0", "0", "7">>
    /\ used[Len(used)] = candidate

(* C5 *)

\* no value of the range gives a candidate far enough from every used code
Infeasible ==
    \A v \in range.start .. (range.end - 1) :
        \E k \in 1..Len(used) :
            Dist(used[k], Prefix \o Numeral(v, num_digits)) < MinDist

\* one digit, distance 2, two codes without prefix, no pre-existing codes
C5_Example ==
    /\ args.digits = 1
    /\ args.min_hamming_distance = 2
    /\ args.existing = << >>
    /\ args.prefixes = << [prefix |-> Empty, number |-> 2] >>

\* C5: a new_code call made when no value of the range is acceptable stays in
\* its loop, reports no error and appends nothing, until the process is ended
\* from outside the call by a failed write of markers to standard output
\* (stated the other way round: a step that returns, makes main return an
\* error or changes the used set is taken only when some value is
\* acceptable); with one digit, distance 2
\* and no prefix the first call returns its first candidate and the second
\* call never returns, so the used set never holds a second code.
C5_InfeasibleNeverReturns ==
    [][ /\ (InCall /\ ~(pc' \in {"test", "while", "panic"} /\ used' = used))
              => ~Infeasible
        /\ C5_Example' =>
              /\ Len(used') <= 1
              /\ pc' # "done"
              /\ (pc' = "while" /\ used' = << >>) => ok_result'
              /\ (InCall' /\ Len(used') = 1) =>
                     (Infeasible' /\ (pc' = "while" => ~ok_result')) ]_vars

\* the second call of the example has rejected two candidates
C5_Witness ==
    /\ C5_Example
    /\ Len(used) = 1
    /\ pc = "while"
    /\ ~ok_result
    /\ dots >= 2

(* C6 *)

\* the candidate drawn under prefix B has the digits of a code in the used set
\* that was generated under prefix A
C6_Collision ==
    /\ pc = "while"
    /\ Prefix = <<"B">>
    /\ \E k \in Generated :
        /\ PrefixOf(k) = <<"A">>
        /\ used[k] = <<"A">> \o Numeral(digits, num_digits)

\* C6 as stated: for every min_hamming_distance >= 1 such a candidate is
\* rejected by ok.
C6_RejectedFromOne ==
    (C6_Collision /\ MinDist >= 1) => ~ok_result

\* C6, amended: the code generated under A is still in the used set and is
\* compared with the candidate drawn under B; the two differ in the prefix
\* character alone, so the candidate is rejected for every
\* min_hamming_distance >= 2.
C6_RejectedFromTwo ==
    (C6_Collision /\ MinDist >= 2) => ~ok_result

\* a B candidate with the digits of the A code has been rejected
C6_Witness ==
    /\ C6_Collision
    /\ MinDist = 2
    /\ ~ok_result

(* C7 *)

\* C7: with min_hamming_distance 0 a new_code call draws once, rejects
\* nothing and returns the candidate it drew, whatever the used set holds.
C7_ZeroDistance ==
    MinDist = 0 =>
        /\ dots = 0
        /\ pc \in {"test", "while", "write"} => draws = 1
        /\ pc = "while" => ok_result
        /\ pc = "write" => used[Len(used)] = candidate

\* distance 0: a code equal to one already in the used set has been returned
C7_Witness ==
    /\ MinDist = 0
    /\ pc = "write"
    /\ \E k \in 1..(Len(used) - 1) : used[k] = candidate

(* C8 *)

\* C8: with an empty used set ok is true of every candidate and every
\* min_hamming_distance, so the first call of a run without pre-existing codes
\* returns the first candidate it draws.
C8_EmptyUsed ==
    /\ (pc = "while" /\ used = << >>) => ok_result
    /\ (args.existing = << >> /\ p_idx = 1 /\ i = 0
            /\ pc \in {"test", "while", "write"}) =>
        /\ dots = 0
        /\ draws = 1
        /\ pc = "write" => used = <<candidate>>

\* ok has accepted a candidate shorter than min_hamming_distance against the
\* empty used set
C8_Witness ==
    /\ pc = "while"
    /\ used = << >>
    /\ MinDist > Len(candidate)
    /\ ok_result

(* C9 *)

RECURSIVE CodesUnder(_, _)
\* the codes of used[k..] that were generated under prefix p, in order
CodesUnder(p, k) ==
    IF k > Len(used) THEN << >>
    ELSE (IF PrefixOf(k) = p THEN <<used[k]>> ELSE << >>) \o CodesUnder(p, k + 1)

\* C9: when the run has finished, the file of every requested prefix holds, in
\* generation order, every code new_code returned under that prefix.
C9_FilesHoldEveryCode ==
    (pc = "done" /\ run = 1) =>
        \A r \in 1..Len(args.prefixes) :
            LET p == args.prefixes[r].prefix IN
            /\ files[p].exists
            /\ files[p].lines = CodesUnder(p, NumExisting + 1)

(* C10 *)

\* C10: the loop test sets ok's result to "every used code differs from the
\* candidate in at least min_hamming_distance of the positions both strings
\* have", and changes neither the used set nor the random source nor the
\* candidate.
C10_OkIsTruncatedDistance ==
    [][ pc = "test" =>
          /\ ok_result' = (\A k \in 1..Len(used) : Dist(used[k], candidate) >= MinDist)
          /\ used' = used
          /\ prng' = prng
          /\ tape' = tape
          /\ candidate' = candidate ]_vars

\* a candidate has been rejected against a used code of another length that
\* would be far enough if the characters past the shorter end counted
C10_Witness ==
    /\ pc = "while"
    /\ ~ok_result
    /\ \A k \in 1..Len(used) :
        /\ Len(used[k]) # Len(candidate)
        /\ Dist(used[k], candidate) < MinDist
        /\ ZipLongestCount(used[k], candidate) >= MinDist
    /\ used # << >>

(* C11 *)

\* C11: the used list only grows at its end.  No step removes, reorders or
\* drops an entry; the step by which new_code returns appends exactly the
\* returned code; nothing is appended while new_code draws and rejects; and
\* num_digits and the range never change.
C11_AppendOnly ==
    [][ /\ Len(used') >= Len(used)
        /\ SubSeq(used', 1, Len(used)) = used
        /\ (pc = "while" /\ pc' = "write") =>
              /\ Len(used') = Len(used) + 1
              /\ used'[Len(used')] = candidate
              /\ candidate' = candidate
        /\ (pc \in {"call", "test", "while"} /\ pc' # "write") => used' = used
        /\ num_digits' = num_digits
        /\ range' = range ]_vars

\* a call has returned, after a rejection, the third entry of the used list
C11_Witness ==
    /\ pc = "write"
    /\ Len(used) = 3
    /\ used[3] = candidate
    /\ dots >= 1
    /\ draws >= 2

(* C12 *)

\* the call in progress asks for a distance above the length of its codes,
\* and the used set holds a code of that length that begins with its prefix
C12_TooFar ==
    /\ InCall
    /\ MinDist > num_digits + Len(Prefix)
    /\ \E k \in 1..Len(used) :
          /\ Len(used[k]) = Len(Prefix) + num_digits
          /\ SubSeq(used[k], 1, Len(Prefix)) = Prefix

\* C12: when min_hamming_distance exceeds num_digits + len(prefix) and the
\* used set holds a code of length len(prefix) + num_digits that begins with
\* the prefix, every candidate of the prefix is rejected, and the new_code call
\* loops for ever: each test fails, no step returns, makes main return an
\* error or appends to the used set, and each rejection is followed by a new
\* draw and a new test; the loop ends only if, after more markers than are
\* counted, standard output takes no more and the process panics.
C12_TooFarLoopsForever ==
    /\ [][ C12_TooFar =>
              /\ Infeasible
              /\ pc = "while" => ~ok_result
              /\ C12_TooFar' \/ (pc' = "panic" /\ pc = "while" /\ dots > MaxRejects)
              /\ used' = used
              /\ pc' \notin {"write", "finish", "done", "error"} ]_vars
    /\ (C12_TooFar /\ pc = "test") ~> (C12_TooFar /\ pc = "while" /\ ~ok_result)
    /\ (C12_TooFar /\ pc = "while") ~> ((C12_TooFar /\ pc = "test") \/ pc = "panic")

\* a call under distance 2 against the pre-supplied code "3" has rejected a
\* candidate that differs from it, and others
C12_Witness ==
    /\ C12_TooFar
    /\ used = << <<"3">> >>
    /\ pc = "while"
    /\ candidate # <<"3">>
    /\ ~ok_result
    /\ dots >= 2

(* C13 *)

\* C13: within one new_code call a marker is printed exactly when a candidate
\* is rejected, before the next draw, and none when a candidate is accepted:
\* the markers of the call are always one fewer than its draws, so a call that
\* returns after k draws has printed k-1 markers.
C13_MarkerPerRejection ==
    [][ /\ pc' \in {"test", "while", "write"} => draws' = dots' + 1
        /\ (pc = "call" /\ pc' = "test") => (draws' = 1 /\ dots' = 0)
        /\ (pc = "while" /\ pc' = "test") =>
              /\ ~ok_result
              /\ dots <= MaxRejects => (dots' = dots + 1 /\ draws' = draws + 1)
              /\ dots > MaxRejects => (dots' = dots /\ draws' = draws)
        /\ (pc = "while" /\ pc' = "write") =>
              (ok_result /\ dots' = dots /\ draws' = draws)
        /\ pc = "test" => (dots' = dots /\ draws' = draws) ]_vars

\* a call has returned after three draws and two markers
C13_Witness ==
    /\ pc = "write"
    /\ draws = 3
    /\ dots = 2
    /\ used[Len(used)] = candidate

(* C14 *)

\* ok of the candidate in hand, by the distance over the shared length
CandidateFar == \A k \in 1..Len(used) : Dist(used[k], candidate) >= MinDist

\* C14: with a fair random source a new_code call for which some value of the
\* range is acceptable returns at last, unless standard output takes no more
\* markers and the process panics; and it returns the first candidate, in
\* the order drawn, that is far enough from every used code: a candidate that
\* is far enough is returned at once, and one that is passed over is not.
C14_ReturnsFirstAccepted ==
    /\ (InCall /\ ~Infeasible) ~> (pc = "write" \/ pc = "panic")
    /\ [][ /\ (pc = "while" /\ CandidateFar) =>
                (pc' = "write" /\ used' = Append(used, candidate)
                     /\ candidate' = candidate)
           /\ (pc = "while" /\ pc' = "test") => ~CandidateFar ]_vars

\* a call has returned after more rejections than are counted
C14_Witness ==
    /\ pc = "write"
    /\ dots > MaxRejects
    /\ draws = dots + 1
    /\ used[Len(used)] = candidate
    /\ Len(used) >= 2
    /\ MinDist >= 1

(* C15 *)

RECURSIVE Lines(_)
\* the lines of a list of files, in order
Lines(fs) == IF fs = << >> THEN << >> ELSE Head(fs) \o Lines(Tail(fs))

\* the used set holds a code of fewer than min_hamming_distance characters
C15_ShortUsed == \E k \in 1..Len(used) : Len(used[k]) < MinDist

\* C15: once the files are read the used set begins with every one of their
\* lines, as they are, whatever their length; and when the used set holds a
\* code of fewer than min_hamming_distance characters each test of a call
\* fails, under whatever prefix: from the end of the file loop on the used set
\* never changes and no call returns, and a call in progress draws and tests
\* again and again, as long as standard output takes the markers.
C15_ShortLineBlocks ==
    /\ [][ /\ path_idx' > Len(args.existing) =>
                 /\ Len(used') >= NumExisting
                 /\ SubSeq(used', 1, NumExisting) = Lines(args.existing)
           /\ (C15_ShortUsed /\ pc = "while") => (~ok_result /\ ~CandidateFar)
           /\ (C15_ShortUsed /\ InCall) => ((InCall' \/ pc' = "panic") /\ Infeasible)
           /\ (C15_ShortUsed /\ path_idx > Len(args.existing)) =>
                 (used' = used /\ pc' # "write") ]_vars
    /\ (C15_ShortUsed /\ pc = "while") ~> ((C15_ShortUsed /\ pc = "test") \/ pc = "panic")
    /\ (C15_ShortUsed /\ pc = "test") ~> (C15_ShortUsed /\ pc = "while" /\ ~ok_result)

\* the file held one empty line, and a call under prefix A and distance 1 has
\* rejected candidates
C15_Witness ==
    /\ args.existing = <<FileBlank>>
    /\ used = << Empty >>
    /\ MinDist = 1
    /\ Prefix = <<"A">>
    /\ pc = "while"
    /\ ~ok_result
    /\ dots >= 2

====
